---------------------------- MODULE Spec2Model ----------------------------
(***************************************************************************)
(* PyCUDA-based linear algebra functions: cuda_utils/linalg.py.            *)
(*                                                                         *)
(* The state is the device heap (every GPUArray ever allocated, with its   *)
(* shape, dtype, contents and whether its device buffer is still           *)
(* allocated), the compiler cache behind SourceModule, the list of kernel  *)
(* sources handed to the compiler, a log of what the running call has done *)
(* and the position and locals of a running mdot or pinv.                  *)
(*                                                                         *)
(* A device buffer is released only by gpudata.free() (linalg.py:256): the *)
(* source holds no other release.                                          *)
(***************************************************************************)
EXTENDS Integers, Sequences, FiniteSets, TLC

VARIABLES
    heap,     \* Seq of GPUArray records; a buffer's id is its index
    cache,    \* kernel sources held by the compiler cache
    nvcc,     \* Seq of the kernel sources compiled so far
    log,      \* what the running (or last) call did
    pc,       \* "idle", or the line the running mdot / pinv is at
    frame,    \* locals of the running mdot / pinv
    budget,   \* calls the caller still makes
    dirty     \* whether unallocated device memory holds old values (or zeros)

vars == <<heap, cache, nvcc, log, pc, frame, budget, dirty>>

----------------------------------------------------------------------------
(* Bounds of the model.                                                    *)

MaxRows == 2                \* rows of an input matrix
MaxCols == 3                \* columns of an input matrix, length of a vector
MaxThreadsPerBlock == 2     \* device attribute MAX_THREADS_PER_BLOCK
MaxBlocksPerGrid == 2       \* device attribute max(MAX_GRID_DIM)
MaxSV == 2                  \* largest singular value the backend reports
MaxArgs == 3                \* arguments of one mdot call
MaxCalls == 3               \* calls in one run of the kernel cache

----------------------------------------------------------------------------
(* Element values.  A number is re + i*im with rational parts <<n, d>>;    *)
(* <<1, 0>> is the IEEE infinity that x ** -1 gives for x = 0.  What the   *)
(* external backend (CUBLAS gemm, CULA gesvd) computes into U, Vt and a    *)
(* product is not decided by this repository: it is the token BackendValue.*)

Num(r, i) == [re |-> <<r, 1>>, im |-> <<i, 1>>]
Zero == Num(0, 0)
Inf == [re |-> <<1, 0>>, im |-> <<0, 1>>]
BackendValue == [re |-> <<0, 0>>, im |-> <<0, 0>>]

Neg(q) == <<0 - q[1], q[2]>>
Recip(q) == <<q[2], q[1]>>

float32 == "float32"
float64 == "float64"
complex64 == "complex64"
complex128 == "complex128"
int32 == "int32"

DTypes == {float32, float64, complex64, complex128, int32}
RealTypes == {float32, float64}
ComplexTypes == {complex64, complex128}
DoubleTypes == {float64, complex128}
KernelTypes == {float32, float64, complex64, complex128}
\* (a slip: svd taking every type the kernels take)
SvdTypes_any == KernelTypes

\* The free version of CULA only supports single precision.
SvdTypes == {float32, complex64}

\* The values an element of the given dtype is drawn from.
Vals(dtype) ==
    IF dtype \in ComplexTypes THEN {Num(0, 0), Num(1, 1)} ELSE {Num(0, 0), Num(1, 0)}

\* cuConj / cuConjf of <cuComplex.h>
cuConj(z) == [re |-> z.re, im |-> Neg(z.im)]

----------------------------------------------------------------------------
(* GPUArray and the heap.                                                  *)

Size(shape) == IF Len(shape) = 1 THEN shape[1] ELSE shape[1] * shape[2]

Reversed(shape) == [i \in 1..Len(shape) |-> shape[Len(shape) + 1 - i]]

GPUArray(shape, dtype, data, by) ==
    [shape |-> shape, dtype |-> dtype, data |-> data, live |-> TRUE, frees |-> 0, by |-> by]

Filled(n, v) == [p \in 1..n |-> v]

NoLog ==
    [op |-> "", args |-> <<>>, status |-> "none", err |-> "", ret |-> <<>>, ops |-> <<>>,
     allocs |-> 0, launches |-> 0, modules |-> 0, queries |-> 0, backend |-> 0,
     grids |-> <<>>]

\* The machine an operation works on, at the start of the call op(args).
Begin(op, args) ==
    [heap |-> heap, cache |-> cache, nvcc |-> nvcc,
     log |-> [NoLog EXCEPT !.op = op, !.args = args, !.status = "running"]]

\* The machine of a call that is already running.
Running == [heap |-> heap, cache |-> cache, nvcc |-> nvcc, log |-> log]

Raise(m, e) == [m EXCEPT !.log.err = e]
Return(m, r) == [m EXCEPT !.log.ret = r]
Did(m, what) == [m EXCEPT !.log.ops = Append(@, what)]

\* gpuarray.empty(shape, dtype): a new buffer whose contents are whatever
\* the memory held (content).
empty(m, shape, dtype, content, by) ==
    [m EXCEPT !.heap = Append(@, GPUArray(shape, dtype, content, by)),
              !.log.allocs = @ + 1]

NewId(m) == Len(m.heap) + 1

\* gpudata.free()
free(m, b) ==
    [m EXCEPT !.heap[b].live = FALSE, !.heap[b].frees = @ + 1]

----------------------------------------------------------------------------
(* cuda_utils.misc: device attributes and execution geometry.              *)

get_dev_attrs(m) ==
    [m EXCEPT !.log.queries = @ + 1]

CeilDiv(a, b) == (a + b - 1) \div b

select_block_grid_sizes(shape) ==
    LET N == Size(shape)
        mt == MaxThreadsPerBlock
        mb == MaxBlocksPerGrid
    IN  IF N <= mt THEN [block |-> <<N, 1, 1>>, grid |-> <<1, 1, 1>>]
        ELSE IF N <= mb * mt
             THEN [block |-> <<mt, 1, 1>>, grid |-> <<CeilDiv(N, mt), 1, 1>>]
             ELSE [block |-> <<mt, 1, 1>>, grid |-> <<mb, CeilDiv(N, mb * mt), 1>>]

\* The idx of every thread of a launch:
\* blockIdx.y*max_threads_per_block*max_blocks_per_grid +
\* blockIdx.x*max_threads_per_block + threadIdx.x
Threads(geo) ==
    { by * MaxThreadsPerBlock * MaxBlocksPerGrid + bx * MaxThreadsPerBlock + tx :
        tx \in 0..(geo.block[1] - 1),
        bx \in 0..(geo.grid[1] - 1),
        by \in 0..(geo.grid[2] - 1) }

\* What memory may hold where a launch writes nothing: any value in the
\* cells of `unwritten` (the other cells are overwritten before any read).
Uninit(n, dtype, unwritten) ==
    { [p \in 1..n |-> IF p \in unwritten THEN f[p] ELSE Zero] :
        f \in [unwritten -> IF dirty THEN Vals(dtype) ELSE {Zero}] }

----------------------------------------------------------------------------
(* SourceModule: compile a kernel source, or take it from the compiler     *)
(* cache.  cache_dir=None leaves the cache on; False turns it off.         *)

\* (a slip: the debugging setting left in)
cache_dir_False == "False"

cache_dir == "None"

SourceModule(m, source) ==
    LET m1 == [m EXCEPT !.log.modules = @ + 1]
    IN  IF cache_dir = "False"
        THEN [m1 EXCEPT !.nvcc = Append(@, source)]
        ELSE IF source \in m1.cache
             THEN m1
             ELSE [m1 EXCEPT !.nvcc = Append(@, source), !.cache = @ \cup {source}]

\* A kernel launch with block=geo.block, grid=geo.grid and the bound N, that
\* leaves `data` in buffer b.
Launch(m, b, data, geo, N) ==
    [m EXCEPT !.heap[b].data = data, !.log.launches = @ + 1,
              !.log.grids = Append(@, [block |-> geo.block, grid |-> geo.grid, N |-> N])]

----------------------------------------------------------------------------
(* transpose                                                               *)

transpose_mod_template(use_double, use_complex, cols, rows) ==
    <<"transpose", use_double, use_complex, MaxThreadsPerBlock, MaxBlocksPerGrid,
      cols, rows>>

\* (a slip: the row stride of the input used for the output)
transpose_dst_cols(idx, cols, rows) == (idx % cols) * cols + (idx \div cols)

\* The cell of odata a thread writes: iy*rows + ix
transpose_dst(idx, cols, rows) == (idx % cols) * rows + (idx \div cols)

\* The cell of idata a thread reads: ix*cols + iy
transpose_src(idx, cols, rows) == (idx \div cols) * cols + (idx % cols)

\* __global__ void transpose(TYPE *odata, TYPE *idata, unsigned int N)
transpose_kernel(odata, idata, N, use_complex, cols, rows, threads) ==
    LET W == {idx \in threads : idx < N}
        CONJ(x) == IF use_complex = 1 THEN cuConj(x) ELSE x
        Writer(p) == CHOOSE idx \in W : transpose_dst(idx, cols, rows) = p - 1
    IN  [p \in 1..Len(odata) |->
            IF \E idx \in W : transpose_dst(idx, cols, rows) = p - 1
            THEN CONJ(idata[transpose_src(Writer(p), cols, rows) + 1])
            ELSE odata[p]]

\* The cells of at_gpu no thread of transpose's launch writes.
transpose_unwritten(shape) ==
    LET W == {idx \in Threads(select_block_grid_sizes(shape)) : idx < Size(shape)}
    IN  {p \in 1..Size(shape) :
            ~ \E idx \in W : transpose_dst(idx, shape[2], shape[1]) = p - 1}

transpose(m, a, content) ==
    LET A == m.heap[a]
    IN  IF A.dtype \notin KernelTypes
        THEN Raise(m, "ValueError: unrecognized type")
        ELSE
        LET use_double == IF A.dtype \in DoubleTypes THEN 1 ELSE 0
            use_complex == IF A.dtype \in ComplexTypes THEN 1 ELSE 0
            m1 == get_dev_attrs(m)
            geo == select_block_grid_sizes(A.shape)
            m2 == SourceModule(m1, transpose_mod_template(use_double, use_complex,
                                                          A.shape[2], A.shape[1]))
            at_gpu == NewId(m2)
            m3 == empty(m2, Reversed(A.shape), A.dtype, content, "transpose")
            odata == transpose_kernel(content, A.data, Size(A.shape), use_complex,
                                      A.shape[2], A.shape[1], Threads(geo))
        IN  Return(Did(Launch(m3, at_gpu, odata, geo, Size(A.shape)), "transpose"), <<at_gpu>>)

----------------------------------------------------------------------------
(* conj                                                                    *)

conj_mod_template(use_double) ==
    <<"conj", use_double, MaxThreadsPerBlock, MaxBlocksPerGrid>>

\* (a slip: the bound check off by one)
conj_kernel_short(a, N, threads) ==
    [p \in 1..Len(a) |->
        IF (p - 1) \in threads /\ p - 1 < N - 1 THEN cuConj(a[p]) ELSE a[p]]

\* __global__ void conj(COMPLEX *a, unsigned int N)
conj_kernel(a, N, threads) ==
    [p \in 1..Len(a) |->
        IF (p - 1) \in threads /\ p - 1 < N THEN cuConj(a[p]) ELSE a[p]]

conj(m, a) ==
    LET A == m.heap[a]
    IN  IF A.dtype \in RealTypes
        THEN m
        ELSE IF A.dtype \notin ComplexTypes
        THEN Raise(m, "ValueError: unsupported type")
        ELSE
        LET use_double == IF A.dtype = complex128 THEN 1 ELSE 0
            m1 == get_dev_attrs(m)
            geo == select_block_grid_sizes(A.shape)
            m2 == SourceModule(m1, conj_mod_template(use_double))
        IN  Did(Launch(m2, a, conj_kernel(A.data, Size(A.shape), Threads(geo)), geo, Size(A.shape)), "conj")

----------------------------------------------------------------------------
(* diag                                                                    *)

diag_mod_template(use_double, use_complex, cols) ==
    <<"diag", use_double, use_complex, MaxThreadsPerBlock, MaxBlocksPerGrid, cols>>

\* __global__ void diag(TYPE *v, TYPE *d, int N); the 0.0 it stores is the
\* zero of TYPE.
diag_kernel(v, d, N, cols, threads) ==
    [p \in 1..Len(d) |->
        IF (p - 1) \in threads /\ p - 1 < N
        THEN IF (p - 1) \div cols = (p - 1) % cols
             THEN v[((p - 1) \div cols) + 1]
             ELSE Zero
        ELSE d[p]]

\* The geometry diag launches with.
diag_geometry(v_shape) == select_block_grid_sizes(v_shape)

\* The cells of d_gpu no thread of diag's launch writes.
diag_unwritten(v_shape) ==
    LET n == Size(v_shape) * Size(v_shape)
    IN  {p \in 1..n : (p - 1) \notin Threads(diag_geometry(v_shape))}

diag(m, v, content) ==
    LET V == m.heap[v]
    IN  IF V.dtype \notin KernelTypes
        THEN Raise(m, "ValueError: unrecognized type")
        ELSE
        LET use_double == IF V.dtype \in DoubleTypes THEN 1 ELSE 0
            use_complex == IF V.dtype \in ComplexTypes THEN 1 ELSE 0
            size == Size(V.shape)
            m1 == get_dev_attrs(m)
            geo == diag_geometry(V.shape)
            m2 == SourceModule(m1, diag_mod_template(use_double, use_complex, size))
            d_gpu == NewId(m2)
            m3 == empty(m2, <<size, size>>, V.dtype, content, "diag")
            d == diag_kernel(V.data, content, size * size, size, Threads(geo))
        IN  Return(Did(Launch(m3, d_gpu, d, geo, size * size), "diag"), <<d_gpu>>)

----------------------------------------------------------------------------
(* dot: one call of the backend's gemm.  status is the status CUBLAS       *)
(* reports; an operand whose buffer was freed is a dangling pointer, and   *)
(* the backend may then report anything.                                   *)

BackendStatus == {"ok", "error"}

dot(m, a_gpu, b_gpu, status) ==
    LET A == m.heap[a_gpu]
        B == m.heap[b_gpu]
    IN  IF ~ (A.dtype = B.dtype /\ A.dtype \in KernelTypes)
        THEN Raise(m, "ValueError: unsupported combination of input types")
        ELSE
        LET shape == <<A.shape[1], B.shape[2]>>
            c_gpu == NewId(m)
            m1 == empty(m, shape, A.dtype, Filled(Size(shape), BackendValue), "dot")
            m2 == Did([m1 EXCEPT !.log.backend = @ + 1], "dot")
        IN  IF status # "ok"
            THEN Raise(m2, "cublasError")
            ELSE Return(m2, <<c_gpu>>)

----------------------------------------------------------------------------
(* svd: one call of the backend's gesvd.  sv is the vector of singular     *)
(* values the backend reports, status its status.                          *)

Min(x, y) == IF x <= y THEN x ELSE y

\* s[i] >= s[i+1], real and non-negative
SingularValues(k) ==
    { [i \in 1..k |-> Num(s[i], 0)] :
        s \in { t \in [1..k -> 0..MaxSV] : \A i \in 1..(k - 1) : t[i] >= t[i + 1] } }

svd(m, a_gpu, full_matrices, compute_uv, sv, status) ==
    LET A == m.heap[a_gpu]
    IN  IF A.dtype \notin SvdTypes
        THEN Raise(m, "ValueError: unsupported type")
        ELSE
        LET mm == A.shape[2]
            nn == A.shape[1]
            k == Min(mm, nn)
            job == IF compute_uv = 1 THEN (IF full_matrices = 1 THEN "A" ELSE "S") ELSE "N"
            s_gpu == NewId(m)
            m1 == empty(m, <<k>>, float32, sv, "svd")
            u_shape == IF job = "A" THEN <<mm, mm>>
                       ELSE IF job = "S" THEN <<k, mm>> ELSE <<1, 1>>
            u_gpu == NewId(m1)
            m2 == empty(m1, u_shape, A.dtype, Filled(Size(u_shape), BackendValue), "svd")
            vt_shape == IF job = "A" THEN <<nn, nn>>
                        ELSE IF job = "S" THEN <<nn, k>> ELSE <<1, 1>>
            vt_gpu == NewId(m2)
            m3 == empty(m2, vt_shape, A.dtype, Filled(Size(vt_shape), BackendValue), "svd")
            \* the backend destroys the contents of the input matrix
            m4 == Did([m3 EXCEPT !.heap[a_gpu].data = Filled(Size(A.shape), BackendValue),
                                 !.log.backend = @ + 1], "svd")
        IN  IF status # "ok"
            THEN Raise(m4, "culaError")
            ELSE IF compute_uv = 1
                 THEN Return(m4, <<vt_gpu, s_gpu, u_gpu>>)
                 ELSE Return(m4, <<s_gpu>>)

\* s_gpu **= np.float32(-1): every element in place; 0 ** -1 is inf
ipow(m, s_gpu) ==
    Did([m EXCEPT !.heap[s_gpu].data =
            [p \in 1..Len(@) |-> [re |-> Recip(@[p].re), im |-> @[p].im]]], "ipow")

----------------------------------------------------------------------------
(* The caller's single calls.                                              *)

NoFrame == [fn |-> ""]

Is2D(b) == Len(heap[b].shape) = 2

\* The call is over: it returned or it raised.
Finish(m) ==
    /\ heap' = m.heap
    /\ cache' = m.cache
    /\ nvcc' = m.nvcc
    /\ log' = [m.log EXCEPT !.status = IF m.log.err = "" THEN "returned" ELSE "raised"]

CallStart ==
    /\ pc = "idle"
    /\ budget > 0
    /\ budget' = budget - 1
    /\ UNCHANGED dirty

CallTranspose ==
    /\ CallStart
    /\ \E a \in DOMAIN heap :
          /\ Is2D(a)
          /\ \E g \in Uninit(Size(heap[a].shape), heap[a].dtype,
                             transpose_unwritten(heap[a].shape)) :
                Finish(transpose(Begin("transpose", <<a>>), a, g))
    /\ UNCHANGED <<pc, frame>>

CallConj ==
    /\ CallStart
    /\ \E a \in DOMAIN heap : Finish(conj(Begin("conj", <<a>>), a))
    /\ UNCHANGED <<pc, frame>>

CallDiag ==
    /\ CallStart
    /\ \E v \in DOMAIN heap :
          /\ ~ Is2D(v)
          /\ \E g \in Uninit(Size(heap[v].shape) * Size(heap[v].shape), heap[v].dtype,
                             diag_unwritten(heap[v].shape)) :
                Finish(diag(Begin("diag", <<v>>), v, g))
    /\ UNCHANGED <<pc, frame>>

CallDot ==
    /\ CallStart
    /\ \E a \in DOMAIN heap, b \in DOMAIN heap, status \in BackendStatus :
          /\ Is2D(a) /\ Is2D(b)
          /\ heap[a].shape[2] = heap[b].shape[1]
          /\ Finish(dot(Begin("dot", <<a, b>>), a, b, status))
    /\ UNCHANGED <<pc, frame>>

CallSvd ==
    /\ CallStart
    /\ \E a \in DOMAIN heap, full_matrices \in {0, 1}, compute_uv \in {0, 1},
          status \in BackendStatus :
          /\ Is2D(a)
          /\ \E sv \in SingularValues(Min(heap[a].shape[1], heap[a].shape[2])) :
                Finish(svd(Begin("svd", <<a>>), a, full_matrices, compute_uv, sv, status))
    /\ UNCHANGED <<pc, frame>>

----------------------------------------------------------------------------
(* mdot, one line at a time.                                               *)

\* A step of a running call: it goes on to line `next` with locals f, or
\* the call ends with the error the step raised.
Step(m, next, f) ==
    /\ heap' = m.heap
    /\ cache' = m.cache
    /\ nvcc' = m.nvcc
    /\ IF m.log.err = ""
       THEN /\ log' = m.log
            /\ pc' = next
            /\ frame' = f
       ELSE /\ log' = [m.log EXCEPT !.status = "raised"]
            /\ pc' = "idle"
            /\ frame' = frame
    /\ UNCHANGED <<budget, dirty>>

\* The argument lists the caller passes: matrices, consecutive shapes
\* compatible.
ArgLists ==
    { args \in UNION { [1..k -> DOMAIN heap] : k \in 1..MaxArgs } :
        /\ \A i \in 1..Len(args) : Is2D(args[i])
        /\ \A i \in 1..(Len(args) - 1) :
              heap[args[i]].shape[2] = heap[args[i + 1]].shape[1] }

\* out_gpu = args[0]
CallMdot ==
    /\ CallStart
    /\ \E args \in ArgLists :
          /\ frame' = [fn |-> "mdot", args |-> args, i |-> 2,
                       out_gpu |-> args[1], temp_gpu |-> 0]
          /\ pc' = IF Len(args) >= 2 THEN "mdot255" ELSE "mdot260"
          /\ log' = Begin("mdot", args).log
    /\ UNCHANGED <<heap, cache, nvcc>>

\* temp_gpu = dot(out_gpu, next_gpu)
mdot255 ==
    /\ pc = "mdot255"
    /\ \E status \in BackendStatus :
          LET m == dot(Running, frame.out_gpu, frame.args[frame.i], status)
          IN  Step(m, "mdot256",
                   [frame EXCEPT !.temp_gpu = IF m.log.ret = <<>> THEN 0 ELSE m.log.ret[1]])

\* (a slip: the first argument freed on every round)
mdot_freed_first(f) == f.args[1]

\* The buffer the loop body frees.
mdot_freed(f) == f.out_gpu

\* out_gpu.gpudata.free(); del(out_gpu); out_gpu = temp_gpu; del(temp_gpu)
mdot256 ==
    /\ pc = "mdot256"
    /\ Step(Return(Did(free(Running, mdot_freed(frame)), "free"), <<>>),
            IF frame.i < Len(frame.args) THEN "mdot255" ELSE "mdot260",
            [frame EXCEPT !.out_gpu = frame.temp_gpu, !.temp_gpu = 0, !.i = @ + 1])

\* return out_gpu
mdot260 ==
    /\ pc = "mdot260"
    /\ log' = [log EXCEPT !.status = "returned", !.ret = <<frame.out_gpu>>]
    /\ pc' = "idle"
    /\ UNCHANGED <<heap, cache, nvcc, frame, budget, dirty>>

----------------------------------------------------------------------------
(* pinv, one line at a time.                                               *)

\* if a_gpu.dtype not in [np.float32, np.complex64]: raise
CallPinv ==
    /\ CallStart
    /\ \E a \in DOMAIN heap :
          /\ Is2D(a)
          /\ frame' = [fn |-> "pinv", a_gpu |-> a, u_gpu |-> 0, s_gpu |-> 0, vh_gpu |-> 0,
                       uh_gpu |-> 0, s_diag_gpu |-> 0, v_gpu |-> 0, suh_gpu |-> 0]
          /\ IF heap[a].dtype \notin SvdTypes
             THEN /\ log' = [Begin("pinv", <<a>>).log EXCEPT !.status = "raised",
                                                     !.err = "ValueError: unsupported type"]
                  /\ pc' = "idle"
             ELSE /\ log' = Begin("pinv", <<a>>).log
                  /\ pc' = "pinv598"
    /\ UNCHANGED <<heap, cache, nvcc>>

\* conj(a_gpu, dev)
pinv598 ==
    /\ pc = "pinv598"
    /\ Step(conj(Running, frame.a_gpu), "pinv599", frame)

\* u_gpu, s_gpu, vh_gpu = svd(a_gpu, 0)
pinv599 ==
    /\ pc = "pinv599"
    /\ \E status \in BackendStatus,
          sv \in SingularValues(Min(heap[frame.a_gpu].shape[1], heap[frame.a_gpu].shape[2])) :
          LET m == svd(Running, frame.a_gpu, 0, 1, sv, status)
          IN  Step(Return(m, <<>>), "pinv600",
                   IF m.log.err # "" THEN frame
                   ELSE [frame EXCEPT !.u_gpu = m.log.ret[1], !.s_gpu = m.log.ret[2],
                                      !.vh_gpu = m.log.ret[3]])

\* uh_gpu = transpose(u_gpu, dev)
pinv600 ==
    /\ pc = "pinv600"
    /\ \E g \in Uninit(Size(heap[frame.u_gpu].shape), heap[frame.u_gpu].dtype,
                       transpose_unwritten(heap[frame.u_gpu].shape)) :
          LET m == transpose(Running, frame.u_gpu, g)
          IN  Step(Return(m, <<>>), "pinv601",
                   IF m.log.err # "" THEN frame ELSE [frame EXCEPT !.uh_gpu = m.log.ret[1]])

\* s_gpu **= np.float32(-1)
pinv601 ==
    /\ pc = "pinv601"
    /\ Step(ipow(Running, frame.s_gpu), "pinv602", frame)

\* s_diag_gpu = diag(s_gpu, dev)
pinv602 ==
    /\ pc = "pinv602"
    /\ \E g \in Uninit(Size(heap[frame.s_gpu].shape) * Size(heap[frame.s_gpu].shape),
                       heap[frame.s_gpu].dtype, diag_unwritten(heap[frame.s_gpu].shape)) :
          LET m == diag(Running, frame.s_gpu, g)
          IN  Step(Return(m, <<>>), "pinv603",
                   IF m.log.err # "" THEN frame
                   ELSE [frame EXCEPT !.s_diag_gpu = m.log.ret[1]])

\* v_gpu = transpose(vh_gpu, dev)
pinv603 ==
    /\ pc = "pinv603"
    /\ \E g \in Uninit(Size(heap[frame.vh_gpu].shape), heap[frame.vh_gpu].dtype,
                       transpose_unwritten(heap[frame.vh_gpu].shape)) :
          LET m == transpose(Running, frame.vh_gpu, g)
          IN  Step(Return(m, <<>>), "pinv604",
                   IF m.log.err # "" THEN frame ELSE [frame EXCEPT !.v_gpu = m.log.ret[1]])

\* suh_gpu = dot(s_diag_gpu, uh_gpu)
pinv604 ==
    /\ pc = "pinv604"
    /\ \E status \in BackendStatus :
          LET m == dot(Running, frame.s_diag_gpu, frame.uh_gpu, status)
          IN  Step(Return(m, <<>>), "pinv605",
                   IF m.log.err # "" THEN frame ELSE [frame EXCEPT !.suh_gpu = m.log.ret[1]])

\* return dot(v_gpu, suh_gpu)
pinv605 ==
    /\ pc = "pinv605"
    /\ \E status \in BackendStatus :
          LET m == dot(Running, frame.v_gpu, frame.suh_gpu, status)
          IN  /\ Finish(m)
              /\ pc' = "idle"
              /\ UNCHANGED <<frame, budget, dirty>>

----------------------------------------------------------------------------
(* What the caller holds when it starts calling.                           *)

Shapes2D == { <<r, c>> : r \in 1..MaxRows, c \in 1..MaxCols }
Shapes1D == { <<k>> : k \in 1..MaxCols }

ShapesSquare == { <<r, c>> : r \in 1..MaxRows, c \in 1..MaxRows }

\* Arrays the caller uploaded (gpuarray.to_gpu), every element drawn freely.
Uploads(shapes) ==
    UNION { { GPUArray(shape, dtype, data, "caller") :
                data \in [1..Size(shape) -> Vals(dtype)] } :
            shape \in shapes, dtype \in DTypes }

\* Arrays the caller uploaded, every element the same non-zero value.
UploadsFilled(shapes) ==
    UNION { { GPUArray(shape, dtype, Filled(Size(shape), v), "caller") :
                v \in Vals(dtype) \ {Zero} } :
            shape \in shapes, dtype \in DTypes }

\* Nothing has been called yet: the caller holds the arrays h and will
\* make b calls; d tells whether device memory holds old values.
Idle(h, b, d) ==
    /\ heap = h
    /\ cache = {}
    /\ nvcc = <<>>
    /\ log = NoLog
    /\ pc = "idle"
    /\ frame = NoFrame
    /\ budget = b
    /\ dirty = d

----------------------------------------------------------------------------
(* Spec: one call of any operation on two uploaded arrays, the second of   *)
(* the transposed shape of the first.                                      *)

Init ==
    \E x \in UploadsFilled(Shapes2D \cup Shapes1D), dtype \in DTypes :
        Idle(<<x, GPUArray(Reversed(x.shape), dtype,
                           Filled(Size(x.shape), CHOOSE v \in Vals(dtype) : v # Zero),
                           "caller")>>, 1, TRUE)

Next ==
    \/ CallTranspose
    \/ CallConj
    \/ CallDiag
    \/ CallDot
    \/ CallSvd
    \/ CallMdot
    \/ mdot255
    \/ mdot256
    \/ mdot260
    \/ CallPinv
    \/ pinv598
    \/ pinv599
    \/ pinv600
    \/ pinv601
    \/ pinv602
    \/ pinv603
    \/ pinv604
    \/ pinv605

Spec == Init /\ [][Next]_vars

----------------------------------------------------------------------------
(* SpecKernels: one call of a kernel operation on one uploaded array, its  *)
(* elements drawn freely.                                                  *)

InitKernels == \E x \in Uploads(Shapes2D \cup Shapes1D) : Idle(<<x>>, 1, TRUE)

NextKernels ==
    \/ CallTranspose
    \/ CallConj
    \/ CallDiag

SpecKernels == InitKernels /\ [][NextKernels]_vars

----------------------------------------------------------------------------
(* SpecCache: up to MaxCalls calls of kernel operations, on an uploaded    *)
(* array and on what the calls return.                                     *)

InitCache == \E x \in UploadsFilled(Shapes2D \cup Shapes1D) : Idle(<<x>>, MaxCalls, FALSE)

SpecCache == InitCache /\ [][NextKernels]_vars

----------------------------------------------------------------------------
(* SpecMdot: one call of mdot on two uploaded matrices.                    *)

InitMdot == \E x \in UploadsFilled(ShapesSquare), y \in UploadsFilled(ShapesSquare) :
               Idle(<<x, y>>, 1, TRUE)

NextMdot ==
    \/ CallMdot
    \/ mdot255
    \/ mdot256
    \/ mdot260

SpecMdot == InitMdot /\ [][NextMdot]_vars

----------------------------------------------------------------------------
(* SpecPinv: one call of pinv on one uploaded matrix.                      *)

InitPinv == \E x \in UploadsFilled(Shapes2D) : Idle(<<x>>, 1, TRUE)

NextPinv ==
    \/ CallPinv
    \/ pinv598
    \/ pinv599
    \/ pinv600
    \/ pinv601
    \/ pinv602
    \/ pinv603
    \/ pinv604
    \/ pinv605

SpecPinv == InitPinv /\ [][NextPinv]_vars

----------------------------------------------------------------------------
(* The claims.                                                             *)

Allocated(by) == {b \in DOMAIN heap : heap[b].by \in by}
Live(bs) == {b \in bs : heap[b].live}

MdotReturned == log.op = "mdot" /\ log.status = "returned"
PinvReturned == log.op = "pinv" /\ log.status = "returned"

\* C1: when mdot(x1, ..., xk) returns, the device buffer of its first input
\* x1 is still allocated, and every buffer mdot has freed is one that a dot
\* call of mdot allocated.
C1_FirstInputSurvives ==
    MdotReturned =>
        /\ heap[log.args[1]].live
        /\ \A b \in DOMAIN heap : heap[b].frees > 0 => heap[b].by = "dot"

\* mdot returned from a chain of at least two matrices.
C1_Witness == MdotReturned /\ Len(log.args) >= 2

\* What C2 says while mdot runs: no buffer is released twice, at most two
\* products are live, and when a dot call is issued the only product still
\* live is the one it consumes.
C2_Running ==
    log.op = "mdot" =>
        /\ \A b \in DOMAIN heap : heap[b].frees <= 1
        /\ Cardinality(Live(Allocated({"dot"}))) <= 2
        /\ pc = "mdot255" => Live(Allocated({"dot"})) \subseteq {frame.out_gpu}
        /\ pc = "mdot255" =>
              \A b \in Allocated({"dot"}) : b # frame.out_gpu => heap[b].frees = 1

C3_IntermediatesReleased ==
    /\ (log.op = "pinv" /\ pc \in {"pinv601", "pinv602", "pinv603", "pinv604", "pinv605"})
          => ~ heap[frame.u_gpu].live
    /\ PinvReturned =>
          Live(Allocated({"svd", "transpose", "diag", "dot"})) = {log.ret[1]}

\* pinv returned a result.
C3_Witness == PinvReturned /\ Len(log.ret) = 1

\* The singular values pinv got from svd hold a zero (an infinity once
\* they are inverted).
C4_SingularInput ==
    /\ log.op = "pinv"
    /\ frame.s_gpu # 0
    /\ \E p \in DOMAIN heap[frame.s_gpu].data : heap[frame.s_gpu].data[p] \in {Zero, Inf}

\* C4: when the singular values hold a zero, pinv fails at the inversion
\* with a division-singularity error: it goes on to no diag, transpose or
\* dot after the inversion and returns no result.
C4_ZeroSingularValueFails ==
    C4_SingularInput =>
        /\ pc \notin {"pinv602", "pinv603", "pinv604", "pinv605"}
        /\ log.status # "returned"
        /\ \A i \in DOMAIN log.ops :
              log.ops[i] = "ipow" => i = Len(log.ops) /\ log.status = "raised"

\* pinv returned a result although a singular value was zero.
C4_Witness == C4_SingularInput /\ log.status = "returned"

\* The element types each operation supports, as C5 lists them.
C5_Supported(op, dtypes) ==
    CASE op = "dot" ->
            /\ dtypes[1] = dtypes[2]
            /\ dtypes[1] \in {"float32", "float64", "complex64", "complex128"}
      [] op \in {"transpose", "diag"} ->
            dtypes[1] \in {"float32", "float64", "complex64", "complex128"}
      [] op \in {"svd", "pinv"} -> dtypes[1] \in {"float32", "complex64"}

\* The call the caller has just made.
C5_Call(op, args) == pc = "idle" /\ log'.op = op /\ log'.args = args /\ budget' < budget

\* C5: a call of dot, transpose, diag, svd or pinv whose element type is
\* outside the operation's supported set raises the unsupported-type error
\* before any buffer is allocated, any kernel compiled or launched or any
\* backend routine called, and leaves every buffer as it was.
C5_UnsupportedTypeRaisesFirst ==
    [][\A op \in {"dot", "transpose", "diag", "svd", "pinv"} :
         (C5_Call(op, log'.args)
            /\ ~ C5_Supported(op, [i \in DOMAIN log'.args |-> heap[log'.args[i]].dtype]))
         => /\ log'.status = "raised"
            /\ log'.err \in {"ValueError: unsupported combination of input types",
                             "ValueError: unrecognized type",
                             "ValueError: unsupported type"}
            /\ pc' = "idle"
            /\ log'.allocs = 0 /\ log'.launches = 0 /\ log'.modules = 0
            /\ log'.backend = 0 /\ log'.ops = <<>>
            /\ heap' = heap /\ nvcc' = nvcc /\ cache' = cache]_vars

\* pinv of a complex128 matrix raised, and the matrix is not conjugated.
C5_Witness ==
    /\ log.op = "pinv" /\ log.status = "raised"
    /\ heap[log.args[1]].dtype = "complex128"
    /\ heap[log.args[1]].data[1] = Num(1, 1)

\* The complex conjugate, as the claims mean it.
Conjugate(z) == [re |-> z.re, im |-> <<0 - z.im[1], z.im[2]>>]

\* C6: for a of shape m x n and a supported element type, transpose(a)
\* returns a new matrix of shape n x m whose element (j, i) is a(i, j) for
\* real types and the conjugate of a(i, j) for complex types, and a is left
\* unchanged.
C6_TransposeIsHermitian ==
    [][(C5_Call("transpose", log'.args)
          /\ heap[log'.args[1]].dtype \in {"float32", "float64", "complex64", "complex128"})
       => LET a == log'.args[1]
              m == heap[a].shape[1]
              n == heap[a].shape[2]
          IN  /\ log'.status = "returned"
              /\ Len(log'.ret) = 1
              /\ log'.ret[1] \notin DOMAIN heap
              /\ log'.ret[1] \in DOMAIN heap'
              /\ heap'[log'.ret[1]].shape = <<n, m>>
              /\ heap'[log'.ret[1]].dtype = heap[a].dtype
              /\ Len(heap'[log'.ret[1]].data) = m * n
              /\ \A i \in 0..(m - 1), j \in 0..(n - 1) :
                    heap'[log'.ret[1]].data[j * m + i + 1] =
                        IF heap[a].dtype \in {"complex64", "complex128"}
                        THEN Conjugate(heap[a].data[i * n + j + 1])
                        ELSE heap[a].data[i * n + j + 1]
              /\ heap'[a] = heap[a]]_vars

\* transpose returned the Hermitian of a 2 x 3 complex64 matrix whose
\* element (0, 1) is 1+1j.
C6_Witness ==
    /\ log.op = "transpose" /\ log.status = "returned"
    /\ heap[1].shape = <<2, 3>> /\ heap[1].dtype = "complex64"
    /\ heap[1].data[2] = Num(1, 1) /\ heap[1].data[1] = Zero
    /\ heap[2].data[3] = Num(1, -1)

\* C7: for a vector v of length k >= 1 and a supported element type, diag(v)
\* returns a k x k matrix in which every one of the k*k elements is
\* written: element (i, i) is v[i] and every other element is zero.
C7_DiagWritesEveryElement ==
    (log.op = "diag"
       /\ heap[log.args[1]].dtype \in {"float32", "float64", "complex64", "complex128"})
    => LET v == heap[log.args[1]]
           k == Size(v.shape)
       IN  /\ log.status = "returned"
           /\ Len(log.ret) = 1
           /\ heap[log.ret[1]].shape = <<k, k>>
           /\ diag_unwritten(v.shape) = {}
           /\ \A i \in 0..(k - 1), j \in 0..(k - 1) :
                 heap[log.ret[1]].data[i * k + j + 1] =
                     IF i = j THEN v.data[i + 1] ELSE Zero

\* diag returned a matrix for a vector of length 2.
C7_Witness ==
    log.op = "diag" /\ log.status = "returned" /\ heap[log.args[1]].shape = <<2>>

\* C8: conj on a float32 or float64 matrix returns at once: no kernel is
\* compiled or launched, no device attribute queried, and every buffer is as
\* it was; on a complex64 or complex128 matrix it replaces every element of
\* the same buffer by its conjugate and allocates no buffer.
C8_ConjInPlace ==
    [][C5_Call("conj", log'.args)
       => LET a == log'.args[1]
          IN  /\ heap[a].dtype \in {"float32", "float64"} =>
                    /\ log'.status = "returned"
                    /\ log'.modules = 0 /\ log'.launches = 0 /\ log'.queries = 0
                    /\ log'.allocs = 0
                    /\ heap' = heap /\ nvcc' = nvcc /\ cache' = cache
              /\ heap[a].dtype \in {"complex64", "complex128"} =>
                    /\ log'.status = "returned"
                    /\ log'.allocs = 0
                    /\ heap' = [heap EXCEPT ![a].data =
                                  [p \in 1..Size(heap[a].shape) |-> Conjugate(heap[a].data[p])]]
      ]_vars

\* conj returned on a 2 x 3 complex64 matrix whose last element was 1+1j.
C8_Witness ==
    /\ log.op = "conj" /\ log.status = "returned"
    /\ heap[1].shape = <<2, 3>> /\ heap[1].dtype = "complex64"
    /\ heap[1].data[6] = Num(1, -1)
    /\ Len(heap) = 1

C10_PinvShapes ==
    (log.op = "pinv" /\ heap[log.args[1]].dtype \in {"float32", "complex64"})
    => LET m == heap[log.args[1]].shape[1]
           n == heap[log.args[1]].shape[2]
           k == IF m <= n THEN m ELSE n
           shape(b) == heap[b].shape
       IN  /\ frame.u_gpu # 0 =>
                 /\ shape(frame.u_gpu) = <<m, k>>
                 /\ shape(frame.s_gpu) = <<k>>
                 /\ shape(frame.vh_gpu) = <<k, n>>
           /\ frame.uh_gpu # 0 => shape(frame.uh_gpu) = <<k, m>>
           /\ frame.s_diag_gpu # 0 => shape(frame.s_diag_gpu) = <<k, k>>
           /\ frame.v_gpu # 0 => shape(frame.v_gpu) = <<n, k>>
           /\ pc = "pinv604" => shape(frame.s_diag_gpu)[2] = shape(frame.uh_gpu)[1]
           /\ pc = "pinv605" => shape(frame.v_gpu)[2] = shape(frame.suh_gpu)[1]
           /\ (pc = "idle" /\ log.err \notin {"culaError", "cublasError"}) =>
                 /\ log.status = "returned"
                 /\ shape(log.ret[1]) = <<n, m>>

\* pinv of a float32 2 x 3 matrix returned.
C10_Witness ==
    PinvReturned /\ heap[1].shape = <<2, 3>> /\ heap[1].dtype = "float32"

\* C11: every kernel launch of transpose, conj and diag has a geometry with
\* block_size * num_blocks >= N, N the bound passed to the kernel (for diag
\* the k*k elements of the output), and every index in [0, N) is the idx of
\* some thread of the launch.
C11_GeometryCoversN ==
    \A i \in DOMAIN log.grids :
        LET l == log.grids[i]
        IN  /\ l.block[1] * l.block[2] * l.block[3] * l.grid[1] * l.grid[2] * l.grid[3] >= l.N
            /\ \A idx \in 0..(l.N - 1) : idx \in Threads(l)

\* diag launched its kernel for a vector of length 2.
C11_Witness ==
    /\ log.op = "diag" /\ log.status = "returned"
    /\ heap[log.args[1]].shape = <<2>>
    /\ Len(log.grids) = 1
    /\ log.grids[1].N = 4

=============================================================================
